---- MODULE Spec2Model ----
(***************************************************************************)
(* State-machine model of src/main.py: the chunker (chunk_text), the       *)
(* ingestion run (ingest_data) writing the SQLite FTS5 table "docs", the   *)
(* module-level lists vectors / metadata and the Faiss index, and the      *)
(* hybrid query (perform_ftss_match, perform_faiss_search, hybrid_search). *)
(*                                                                         *)
(* Strings are sequences of one-character strings; a chunk is such a       *)
(* string. The external capabilities (embedding model, bm25 ranking,       *)
(* BeautifulSoup) are deterministic stand-ins with the same interface.     *)
(***************************************************************************)
EXTENDS Integers, Sequences, FiniteSets, TLC

VARIABLES
    issues,       \* what jira.jql(...)["issues"] returns (main.py:84)
    pages,        \* what confluence.get_all_pages_from_space returns (main.py:95)
    tableExists,  \* whether table docs exists in docs.db
    docsRows,     \* committed rows of docs, in rowid order
    pending,      \* per run: rows inserted in its open transaction
    dbWriter,     \* run holding the SQLite write lock, 0 for none
    vectors,      \* module-level list vectors (main.py:37)
    metadata,     \* module-level list metadata (main.py:38)
    faiss_index,  \* vectors stored in faiss_index (main.py:36)
    pc,           \* per run: position in ingest_data
    phase,        \* per run: "jira" or "confluence" loop
    di,           \* per run: index of the current issue / page
    ci,           \* per run: index of the current chunk of the document
    chunks,       \* per run: chunks of the current document
    vec,          \* per run: local vec (main.py:89, 101)
    err,          \* per run: the exception that ended the run, "" for none
    lastRun,      \* history: the run started last (0: none)
    solo,         \* history: no other run was active while lastRun ran
    serial,       \* history: no two runs ever overlapped
    prev,         \* history: index state when lastRun started
    doneAtStart,  \* history: runs completed / aborted when lastRun started
    qpc,          \* position of the query: "idle", "faiss", "done"
    qquery,       \* the query string
    qtopk,        \* top_k of the query
    qinitial,     \* initial_results of hybrid_search (main.py:157)
    qsem,         \* what faiss_index.search returned: ids and distances
    qfinal,       \* what perform_faiss_search returned (main.py:152)
    qres,         \* outcome of hybrid_search: status, error, hits
    qseen,        \* history: what the query read from the three structures
    ctext,        \* chunk_text call under test: text
    cmax,         \*   max_words
    cover,        \*   overlap
    cgen          \* the generator chunk_text returned: status, i, out, err

vars == <<issues, pages, tableExists, docsRows, pending, dbWriter, vectors,
          metadata, faiss_index, pc, phase, di, ci, chunks, vec, err,
          lastRun, solo, serial, prev, doneAtStart,
          qpc, qquery, qtopk, qinitial, qsem, qfinal, qres, qseen,
          ctext, cmax, cover, cgen>>

ingestVars == <<issues, pages, tableExists, docsRows, pending, dbWriter, vectors,
                metadata, faiss_index, pc, phase, di, ci, chunks, vec, err,
                lastRun, solo, serial, prev, doneAtStart>>

queryVars == <<qpc, qquery, qtopk, qinitial, qsem, qfinal, qres, qseen>>

chunkVars == <<ctext, cmax, cover, cgen>>

(***************************************************************************)
(* Bounds of the model.                                                    *)
(***************************************************************************)
MaxRuns == 2        \* ingestion runs triggered in one behaviour
MaxTopK == 2        \* largest top_k a query is issued with
MaxTextLen == 6     \* longest text handed to chunk_text on its own
MaxMaxWords == 4    \* largest max_words / overlap handed to chunk_text

Runs == 1..MaxRuns

Min(a, b) == IF a < b THEN a ELSE b
Max(a, b) == IF a > b THEN a ELSE b

(***************************************************************************)
(* Python built-ins used by the code.                                      *)
(***************************************************************************)
Whitespace == {" ", "\n"}

\* s[lo:hi] for lo >= 0: a negative hi counts from the end.
PySlice(s, lo, hi) ==
    LET h == IF hi < 0 THEN Max(Len(s) + hi, 0) ELSE Min(hi, Len(s))
    IN  IF lo >= h THEN <<>> ELSE SubSeq(s, lo + 1, h)

\* The values of a range with step > 0 from i on: i, i + step, ... below stop.
RECURSIVE RangeFrom(_, _, _)
RangeFrom(i, stop, step) ==
    IF i >= stop THEN <<>> ELSE <<i>> \o RangeFrom(i + step, stop, step)

\* PyRange without the last, partial window: only the starts that leave a
\* full step of words.
PyRange_FullStepsOnly(stop, step) == RangeFrom(0, stop - step + 1, step)

\* range(0, stop, step) for step > 0, as the sequence of its values.
PyRange(stop, step) == RangeFrom(0, stop, step)

\* The runs of characters of s outside seps, in order (str.split() for
\* seps = Whitespace): cur is the run being read.
RECURSIVE SplitRuns(_, _, _)
SplitRuns(s, seps, cur) ==
    IF s = <<>> THEN (IF cur = <<>> THEN <<>> ELSE <<cur>>)
    ELSE IF Head(s) \in seps
         THEN (IF cur = <<>> THEN <<>> ELSE <<cur>>) \o SplitRuns(Tail(s), seps, <<>>)
         ELSE SplitRuns(Tail(s), seps, Append(cur, Head(s)))

Split(text) == SplitRuns(text, Whitespace, <<>>)

\* sep.join(parts)
RECURSIVE Join(_, _)
Join(parts, sep) ==
    IF parts = <<>> THEN <<>>
    ELSE IF Len(parts) = 1 THEN parts[1]
    ELSE parts[1] \o <<sep>> \o Join(Tail(parts), sep)

(***************************************************************************)
(* Data processing helpers.                                                *)
(***************************************************************************)
TagTokens == {"<p>", "</p>"}

\* html_to_text: the text nodes of the markup, joined by "\n".
html_to_text(html) == Join(SplitRuns(html, TagTokens, <<>>), "\n")

DefaultMaxWords == 300
DefaultOverlap == 50

\* ChunkRange with the overlap taken off the number of words before the
\* windows are counted: a text no longer than the overlap yields nothing.
ChunkRange_OverlapOffLength(text, max_words, overlap) ==
    LET words == Split(text)
        step  == max_words - overlap
    IN  IF step = 0 THEN [err |-> "ValueError", starts |-> <<>>]
        ELSE IF step < 0 THEN [err |-> "", starts |-> <<>>]
        ELSE [err |-> "", starts |-> PyRange(Len(words) - overlap, step)]

\* The loop header of chunk_text: words, step and the values of
\* range(0, len(words), step). range raises ValueError for a zero step and is
\* empty for a negative one.
ChunkRange(text, max_words, overlap) ==
    LET words == Split(text)
        step  == max_words - overlap
    IN  IF step = 0 THEN [err |-> "ValueError", starts |-> <<>>]
        ELSE IF step < 0 THEN [err |-> "", starts |-> <<>>]
        ELSE [err |-> "", starts |-> PyRange(Len(words), step)]

\* ChunkAt with the slice taken from the text, not from its words: the
\* whitespace of the text is kept.
ChunkAt_RawText(text, max_words, i) == PySlice(text, i, i + max_words)

\* The chunk yielded for loop value i: " ".join(words[i : i + max_words]).
ChunkAt(text, max_words, i) == Join(PySlice(Split(text), i, i + max_words), " ")

\* chunk_text consumed to its end, as a for loop does: the error it raised
\* (if any) and the chunks it yielded.
chunk_text(text, max_words, overlap) ==
    LET r == ChunkRange(text, max_words, overlap)
    IN  [err    |-> r.err,
         chunks |-> [j \in 1..Len(r.starts) |-> ChunkAt(text, max_words, r.starts[j])]]

\* embedder.encode: a deterministic stand-in for the MPNet model, the counts
\* of the words "a" and "b" among the words of the text.
CountWord(words, w) == Cardinality({j \in 1..Len(words) : words[j] = <<w>>})

encode(text) == <<CountWord(Split(text), "a"), CountWord(Split(text), "b")>>

\* IndexFlatL2's metric: the squared Euclidean distance.
L2Sqr(u, v) == (u[1] - v[1]) * (u[1] - v[1]) + (u[2] - v[2]) * (u[2] - v[2])

(***************************************************************************)
(* chunk_text on its own: the generator, advanced one next() at a time.    *)
(***************************************************************************)
Chars == {"a", "b", " "}

RECURSIVE SeqsUpTo(_, _)
SeqsUpTo(S, n) ==
    IF n = 0 THEN {<<>>}
    ELSE LET shorter == SeqsUpTo(S, n - 1)
         IN  shorter \cup {Append(s, c) : s \in {t \in shorter : Len(t) = n - 1}, c \in S}

NewGenerator == [status |-> "new", pos |-> 0, out |-> <<>>, err |-> ""]

\* next() on the generator: the first call runs the body up to the loop
\* header; each call yields the chunk of the next loop value, or ends.
ChunkNext ==
    /\ cgen.status \in {"new", "running"}
    /\ LET r == ChunkRange(ctext, cmax, cover)
       IN  IF r.err # ""
           THEN cgen' = [cgen EXCEPT !.status = "raised", !.err = r.err]
           ELSE IF cgen.pos < Len(r.starts)
           THEN cgen' = [cgen EXCEPT !.status = "running",
                                     !.pos = cgen.pos + 1,
                                     !.out = Append(cgen.out,
                                                ChunkAt(ctext, cmax, r.starts[cgen.pos + 1]))]
           ELSE cgen' = [cgen EXCEPT !.status = "exhausted"]
    /\ UNCHANGED <<ctext, cmax, cover>>

(***************************************************************************)
(* The documents the connectors return. A run fetches the same documents   *)
(* every time: the corpus is chosen once, in Init.                         *)
(***************************************************************************)
Issue(key, description) == [key |-> key, description |-> description]
Page(id, html) == [id |-> id, html |-> html]

Corpora ==
    { [issues |-> <<Issue("J1", <<"<p>", "a", " ", "b", "</p>">>)>>,
       pages  |-> <<Page("P1", <<"<p>", "b", "</p>", "<p>", "b", "</p>">>)>>],
      [issues |-> <<Issue("J1", <<"a", " ", " ", "a">>), Issue("J2", <<>>)>>,
       pages  |-> <<>>],
      [issues |-> <<>>, pages |-> <<>>] }

(***************************************************************************)
(* Ingestion: ingest_data, one action per statement that touches shared    *)
(* state or can fail. A run is a background task of POST /ingest.          *)
(***************************************************************************)
Finished == {"idle", "done", "aborted"}

Active == {s \in Runs : pc[s] \notin Finished}

IndexState == [table |-> tableExists, rows |-> docsRows,
               faiss |-> faiss_index, meta |-> metadata]

\* An exception leaves ingest_data: the run ends, and its connection is
\* dropped with the transaction open, which rolls the inserted rows back.
Raise(r, e) ==
    /\ pc' = [pc EXCEPT ![r] = "aborted"]
    /\ err' = [err EXCEPT ![r] = e]
    /\ pending' = [pending EXCEPT ![r] = <<>>]
    /\ dbWriter' = IF dbWriter = r THEN 0 ELSE dbWriter

\* POST /ingest: background.add_task(ingest_data); the task then connects.
StartIngest(r) ==
    /\ pc[r] = "idle"
    /\ \A s \in Runs : s < r => pc[s] # "idle"
    /\ pc' = [pc EXCEPT ![r] = "drop"]
    /\ lastRun' = r
    /\ solo' = (Active = {})
    /\ serial' = (serial /\ Active = {})
    /\ prev' = IndexState
    /\ doneAtStart' = [done    |-> Cardinality({s \in Runs : pc[s] = "done"}),
                       aborted |-> Cardinality({s \in Runs : pc[s] = "aborted"})]
    /\ UNCHANGED <<issues, pages, tableExists, docsRows, pending, dbWriter, vectors,
                   metadata, faiss_index, phase, di, ci, chunks, vec, err>>
    /\ UNCHANGED <<queryVars, chunkVars>>

\* DROP TABLE IF EXISTS docs: no transaction is open, so it takes effect at once.
DropTable(r) ==
    /\ pc[r] = "drop"
    /\ dbWriter = 0
    /\ tableExists' = FALSE
    /\ docsRows' = <<>>
    /\ pc' = [pc EXCEPT ![r] = "create"]
    /\ UNCHANGED <<issues, pages, pending, dbWriter, vectors, metadata, faiss_index,
                   phase, di, ci, chunks, vec, err,
                   lastRun, solo, serial, prev, doneAtStart>>
    /\ UNCHANGED <<queryVars, chunkVars>>

\* CREATE VIRTUAL TABLE docs: fails when another run has created it again.
CreateTable(r) ==
    /\ pc[r] = "create"
    /\ dbWriter = 0
    /\ IF tableExists
       THEN /\ Raise(r, "OperationalError")
            /\ UNCHANGED tableExists
       ELSE /\ tableExists' = TRUE
            /\ pc' = [pc EXCEPT ![r] = "jql"]
            /\ UNCHANGED <<pending, dbWriter, err>>
    /\ UNCHANGED <<issues, pages, docsRows, vectors, metadata, faiss_index,
                   phase, di, ci, chunks, vec,
                   lastRun, solo, serial, prev, doneAtStart>>
    /\ UNCHANGED <<queryVars, chunkVars>>

\* A statement that writes finds the database locked by another run's open
\* transaction until the busy timeout ends: sqlite3.OperationalError.
DbLocked(r) ==
    /\ pc[r] \in {"drop", "create", "insert"}
    /\ dbWriter \notin {0, r}
    /\ Raise(r, "OperationalError")
    /\ UNCHANGED <<issues, pages, tableExists, docsRows, vectors, metadata, faiss_index,
                   phase, di, ci, chunks, vec,
                   lastRun, solo, serial, prev, doneAtStart>>
    /\ UNCHANGED <<queryVars, chunkVars>>

\* issues = jira.jql(JIRA_JQL, limit=100)["issues"], which may raise.
FetchIssues(r) ==
    /\ pc[r] = "jql"
    /\ \/ /\ pc' = [pc EXCEPT ![r] = "issue"]
          /\ phase' = [phase EXCEPT ![r] = "jira"]
          /\ di' = [di EXCEPT ![r] = 1]
          /\ UNCHANGED <<pending, dbWriter, err>>
       \/ /\ Raise(r, "ListingError")
          /\ UNCHANGED <<phase, di>>
    /\ UNCHANGED <<issues, pages, tableExists, docsRows, vectors, metadata, faiss_index,
                   ci, chunks, vec, lastRun, solo, serial, prev, doneAtStart>>
    /\ UNCHANGED <<queryVars, chunkVars>>

\* The loop over a document's chunks starts, or the document has none.
EnterDocument(r, text, again) ==
    LET cs == chunk_text(text, DefaultMaxWords, DefaultOverlap).chunks
    IN  /\ chunks' = [chunks EXCEPT ![r] = cs]
        /\ ci' = [ci EXCEPT ![r] = 1]
        /\ IF cs = <<>>
           THEN /\ di' = [di EXCEPT ![r] = di[r] + 1]
                /\ pc' = [pc EXCEPT ![r] = again]
           ELSE /\ pc' = [pc EXCEPT ![r] = "encode"]
                /\ UNCHANGED di

\* for issue in issues: key, desc = html_to_text(description)
IssueHead(r) ==
    /\ pc[r] = "issue"
    /\ IF di[r] > Len(issues)
       THEN /\ pc' = [pc EXCEPT ![r] = "pages"]
            /\ UNCHANGED <<di, ci, chunks>>
       ELSE EnterDocument(r, html_to_text(issues[di[r]].description), "issue")
    /\ UNCHANGED <<issues, pages, tableExists, docsRows, pending, dbWriter, vectors,
                   metadata, faiss_index, phase, vec, err,
                   lastRun, solo, serial, prev, doneAtStart>>
    /\ UNCHANGED <<queryVars, chunkVars>>

\* pages = confluence.get_all_pages_from_space(CONF_SPACE, limit=100), which may raise.
FetchPages(r) ==
    /\ pc[r] = "pages"
    /\ \/ /\ pc' = [pc EXCEPT ![r] = "page"]
          /\ phase' = [phase EXCEPT ![r] = "confluence"]
          /\ di' = [di EXCEPT ![r] = 1]
          /\ UNCHANGED <<pending, dbWriter, err>>
       \/ /\ Raise(r, "ListingError")
          /\ UNCHANGED <<phase, di>>
    /\ UNCHANGED <<issues, pages, tableExists, docsRows, vectors, metadata, faiss_index,
                   ci, chunks, vec, lastRun, solo, serial, prev, doneAtStart>>
    /\ UNCHANGED <<queryVars, chunkVars>>

\* for page in pages: html = confluence.get_page_by_id(...), which may raise;
\* text = html_to_text(html)
PageHead(r) ==
    /\ pc[r] = "page"
    /\ \/ /\ IF di[r] > Len(pages)
             THEN /\ pc' = [pc EXCEPT ![r] = "commit"]
                  /\ UNCHANGED <<di, ci, chunks>>
             ELSE EnterDocument(r, html_to_text(pages[di[r]].html), "page")
          /\ UNCHANGED <<pending, dbWriter, err>>
       \/ /\ di[r] <= Len(pages)
          /\ Raise(r, "FetchError")
          /\ UNCHANGED <<di, ci, chunks>>
    /\ UNCHANGED <<issues, pages, tableExists, docsRows, vectors, metadata, faiss_index,
                   phase, vec, lastRun, solo, serial, prev, doneAtStart>>
    /\ UNCHANGED <<queryVars, chunkVars>>

\* vec = embedder.encode(chunk), which may raise.
Encode(r) ==
    /\ pc[r] = "encode"
    /\ \/ /\ vec' = [vec EXCEPT ![r] = encode(chunks[r][ci[r]])]
          /\ pc' = [pc EXCEPT ![r] = "vappend"]
          /\ UNCHANGED <<pending, dbWriter, err>>
       \/ /\ Raise(r, "EmbedError")
          /\ UNCHANGED vec
    /\ UNCHANGED <<issues, pages, tableExists, docsRows, vectors, metadata, faiss_index,
                   phase, di, ci, chunks, lastRun, solo, serial, prev, doneAtStart>>
    /\ UNCHANGED <<queryVars, chunkVars>>

\* vectors.append(vec)
AppendVector(r) ==
    /\ pc[r] = "vappend"
    /\ vectors' = Append(vectors, vec[r])
    /\ pc' = [pc EXCEPT ![r] = "mappend"]
    /\ UNCHANGED <<issues, pages, tableExists, docsRows, pending, dbWriter,
                   metadata, faiss_index, phase, di, ci, chunks, vec, err,
                   lastRun, solo, serial, prev, doneAtStart>>
    /\ UNCHANGED <<queryVars, chunkVars>>

DocId(r) == IF phase[r] = "jira" THEN issues[di[r]].key ELSE pages[di[r]].id

\* metadata.append({"source": ..., "id": ..., "text": chunk})
AppendMetadata(r) ==
    /\ pc[r] = "mappend"
    /\ metadata' = Append(metadata, [source |-> phase[r], id |-> DocId(r),
                                     text |-> chunks[r][ci[r]]])
    /\ pc' = [pc EXCEPT ![r] = "insert"]
    /\ UNCHANGED <<issues, pages, tableExists, docsRows, pending, dbWriter,
                   vectors, faiss_index, phase, di, ci, chunks, vec, err,
                   lastRun, solo, serial, prev, doneAtStart>>
    /\ UNCHANGED <<queryVars, chunkVars>>

\* c.execute("INSERT INTO docs(content, source, doc_id) VALUES (?, ?, ?)"): the
\* first insert opens the run's transaction; then the next chunk or document.
InsertRow(r) ==
    /\ pc[r] = "insert"
    /\ dbWriter \in {0, r}
    /\ IF tableExists
       THEN /\ pending' = [pending EXCEPT ![r] =
                              Append(pending[r], [content |-> chunks[r][ci[r]],
                                                  source  |-> phase[r],
                                                  doc_id  |-> DocId(r)])]
            /\ dbWriter' = r
            /\ IF ci[r] < Len(chunks[r])
               THEN /\ ci' = [ci EXCEPT ![r] = ci[r] + 1]
                    /\ pc' = [pc EXCEPT ![r] = "encode"]
                    /\ UNCHANGED di
               ELSE /\ di' = [di EXCEPT ![r] = di[r] + 1]
                    /\ pc' = [pc EXCEPT ![r] = IF phase[r] = "jira" THEN "issue" ELSE "page"]
                    /\ UNCHANGED ci
            /\ UNCHANGED err
       ELSE /\ Raise(r, "OperationalError")
            /\ UNCHANGED <<di, ci>>
    /\ UNCHANGED <<issues, pages, tableExists, docsRows, vectors, metadata, faiss_index,
                   phase, chunks, vec, lastRun, solo, serial, prev, doneAtStart>>
    /\ UNCHANGED <<queryVars, chunkVars>>

\* conn.commit(); conn.close(): the run's rows become visible to readers.
Commit(r) ==
    /\ pc[r] = "commit"
    /\ docsRows' = docsRows \o pending[r]
    /\ pending' = [pending EXCEPT ![r] = <<>>]
    /\ dbWriter' = IF dbWriter = r THEN 0 ELSE dbWriter
    /\ pc' = [pc EXCEPT ![r] = "add"]
    /\ UNCHANGED <<issues, pages, tableExists, vectors, metadata, faiss_index,
                   phase, di, ci, chunks, vec, err,
                   lastRun, solo, serial, prev, doneAtStart>>
    /\ UNCHANGED <<queryVars, chunkVars>>

\* vectors_np = np.array(vectors, dtype=np.float32); faiss_index.add(vectors_np):
\* the whole list is added; an empty list makes a 1-d array, which add rejects.
FaissAdd(r) ==
    /\ pc[r] = "add"
    /\ IF vectors = <<>>
       THEN /\ Raise(r, "ValueError")
            /\ UNCHANGED faiss_index
       ELSE /\ faiss_index' = faiss_index \o vectors
            /\ pc' = [pc EXCEPT ![r] = "done"]
            /\ UNCHANGED <<pending, dbWriter, err>>
    /\ UNCHANGED <<issues, pages, tableExists, docsRows, vectors, metadata,
                   phase, di, ci, chunks, vec,
                   lastRun, solo, serial, prev, doneAtStart>>
    /\ UNCHANGED <<queryVars, chunkVars>>

Ingest(r) ==
    \/ StartIngest(r)
    \/ DropTable(r)
    \/ CreateTable(r)
    \/ DbLocked(r)
    \/ FetchIssues(r)
    \/ IssueHead(r)
    \/ FetchPages(r)
    \/ PageHead(r)
    \/ Encode(r)
    \/ AppendVector(r)
    \/ AppendMetadata(r)
    \/ InsertRow(r)
    \/ Commit(r)
    \/ FaissAdd(r)

(***************************************************************************)
(* Search: perform_ftss_match, perform_faiss_search and hybrid_search.     *)
(* Python evaluates a query in two reads of shared state: the SQL query,   *)
(* then the Faiss search with the metadata lookups.                        *)
(***************************************************************************)
Queries == {<<"a">>, <<"b">>}
TopKs == (-1)..MaxTopK

Hit(source_id, snippet, score) ==
    [source_id |-> source_id, snippet |-> snippet, score |-> score]

\* A hit with the place it came from: <<"semantic", i>> is the i-th result of
\* the vector search, <<"lexical", i>> the i-th row of the SQL result.
Entry(hit, from) == [hit |-> hit, from |-> from]

\* sorted(entries, key=score, reverse=True): x goes after the entries of
\* sorted_ whose score is not smaller, so equal scores keep their order.
InsertDesc(sorted_, x) ==
    LET n == Cardinality({j \in 1..Len(sorted_) : sorted_[j].hit.score >= x.hit.score})
    IN  SubSeq(sorted_, 1, n) \o <<x>> \o SubSeq(sorted_, n + 1, Len(sorted_))

RECURSIVE SortDesc(_)
SortDesc(entries) ==
    IF entries = <<>> THEN <<>>
    ELSE InsertDesc(SortDesc(SubSeq(entries, 1, Len(entries) - 1)),
                    entries[Len(entries)])

\* docs MATCH ?: every term of the query is a token of the content
\* (tokenize='unicode61' splits both at whitespace).
Matches(content, query) ==
    \A j \in 1..Len(Split(query)) :
        \E m \in 1..Len(Split(content)) : Split(content)[m] = Split(query)[j]

RECURSIVE SumOver(_, _)
SumOver(f, n) == IF n = 0 THEN 0 ELSE f[n] + SumOver(f, n - 1)

\* bm25(docs): a stand-in with its sign convention, more negative for a
\* better match: minus the number of occurrences of the query's terms.
bm25(content, query) ==
    LET ws == Split(content)
        qs == Split(query)
        tf == [j \in 1..Len(qs) |-> Cardinality({m \in 1..Len(ws) : ws[m] = qs[j]})]
    IN  0 - SumOver(tf, Len(qs))

SnippetTokens == 5

\* snippet(docs, -1, '[', ']', '...', 5): at most five tokens of the content,
\* the matched ones between brackets, '...' where the text was cut.
snippet(content, query) ==
    LET ws    == Split(content)
        shown == PySlice(ws, 0, SnippetTokens)
        mark  == [j \in 1..Len(shown) |->
                     IF \E m \in 1..Len(Split(query)) : Split(query)[m] = shown[j]
                     THEN <<"[">> \o shown[j] \o <<"]">> ELSE shown[j]]
    IN  Join(mark, " ") \o (IF Len(ws) > SnippetTokens THEN <<"...">> ELSE <<>>)

\* LIMIT n: a negative n is no limit.
Limit(rows, n) == IF n < 0 THEN rows ELSE PySlice(rows, 0, n)

\* The rows the SQL of perform_ftss_match returns, as hits: matching rows
\* ORDER BY rank (ties in rowid order) LIMIT limit, score = -rank.
perform_ftss_match(rows, query, limit) ==
    LET idx == {j \in 1..Len(rows) : Matches(rows[j].content, query)}
        RECURSIVE Pick(_)
        Pick(j) == IF j > Len(rows) THEN <<>>
                   ELSE (IF j \in idx
                         THEN <<Entry(Hit(<<rows[j].source, rows[j].doc_id>>,
                                          snippet(rows[j].content, query),
                                          0 - bm25(rows[j].content, query)),
                                      <<"lexical", j>>)>>
                         ELSE <<>>) \o Pick(j + 1)
    IN  Limit(SortDesc(Pick(1)), limit)

FLT_MAX == 1000000

\* faiss_index.search(q, k) for k > 0: the k stored vectors nearest to q_vec,
\* nearest first (ids count from 0); the positions beyond the number of stored
\* vectors hold id -1 and distance FLT_MAX.
Search(index, q_vec, k) ==
    LET n == Len(index)
        d(i) == L2Sqr(index[i], q_vec)
        Before(i, j) == d(i) < d(j) \/ (d(i) = d(j) /\ i < j)
        Place(i) == Cardinality({j \in 1..n : Before(j, i)}) + 1
    IN  [p \in 1..k |->
            IF p <= n
            THEN LET i == CHOOSE i \in 1..n : Place(i) = p
                 IN  [idx |-> i - 1, dist |-> d(i)]
            ELSE [idx |-> 0 - 1, dist |-> FLT_MAX]]

\* list[idx]: a negative idx counts from the end; IndexError outside the list.
PyIndexOk(list, idx) == idx < Len(list) /\ idx >= 0 - Len(list)
PyIndex(list, idx) == IF idx < 0 THEN list[Len(list) + idx + 1] ELSE list[idx + 1]

\* The loop of perform_faiss_search: one hit per returned id, with the
\* distance as its score.
SemanticHits(found, meta) ==
    [j \in 1..Len(found) |->
        LET doc == PyIndex(meta, found[j].idx)
        IN  Entry(Hit(<<doc.source, doc.id>>, doc.text, found[j].dist),
                  <<"semantic", j>>)]

\* perform_faiss_search's return value: final_results + initial_results[:top_k]
perform_faiss_search(found, meta, initial_results, top_k) ==
    SemanticHits(found, meta) \o PySlice(initial_results, 0, top_k)

\* hybrid_search's return value: sorted(final_results, ..., reverse=True)[:top_k]
Fuse(final_results, top_k) == PySlice(SortDesc(final_results), 0, top_k)

Hits(entries) == [j \in 1..Len(entries) |-> entries[j].hit]
Froms(entries) == [j \in 1..Len(entries) |-> entries[j].from]

NoResult == [status |-> "none", error |-> "", hits |-> <<>>, from |-> <<>>]
Failed(e) == [status |-> "error", error |-> e, hits |-> <<>>, from |-> <<>>]
Returned(entries) == [status |-> "ok", error |-> "", hits |-> Hits(entries),
                      from |-> Froms(entries)]

\* What a query has read: the table at its SQL query, the vector index and
\* metadata at its vector search (before that, as they were at the SQL query);
\* reads counts the reads made, during tells whether a run was under way.
NoSeen == [table |-> FALSE, rows |-> <<>>, faiss |-> <<>>, meta |-> <<>>,
           reads |-> 0, during |-> FALSE]

\* POST /query: hybrid_search starts, perform_ftss_match(query, top_k * 2) runs.
\* A missing table docs makes the SQL raise sqlite3.OperationalError.
QueryLexical(q, k) ==
    /\ qpc = "idle"
    /\ qquery' = q
    /\ qtopk' = k
    /\ qseen' = [table |-> tableExists, rows |-> docsRows, faiss |-> faiss_index,
                 meta |-> metadata, reads |-> 1, during |-> (Active # {})]
    /\ qsem' = <<>>
    /\ qfinal' = <<>>
    /\ IF tableExists
       THEN /\ qinitial' = perform_ftss_match(docsRows, q, k * 2)
            /\ qres' = NoResult
            /\ qpc' = "faiss"
       ELSE /\ qinitial' = <<>>
            /\ qres' = Failed("OperationalError")
            /\ qpc' = "done"
    /\ UNCHANGED <<ingestVars, chunkVars>>

\* perform_faiss_search and the final sort of hybrid_search. The search wrapper
\* asserts k > 0; with assertions off (or a wrapper without the assertion) a
\* search for 0 neighbours returns no ids, and a negative k fails in the
\* allocation of the result arrays.
QueryFaiss ==
    /\ qpc = "faiss"
    /\ \/ /\ qtopk > 0
          /\ qseen' = [qseen EXCEPT !.faiss = faiss_index, !.meta = metadata,
                                    !.reads = 2,
                                    !.during = (qseen.during \/ Active # {})]
          /\ LET found == Search(faiss_index, encode(qquery), qtopk)
             IN  /\ qsem' = found
                 /\ IF \A j \in 1..Len(found) : PyIndexOk(metadata, found[j].idx)
                    THEN /\ qfinal' = perform_faiss_search(found, metadata, qinitial, qtopk)
                         /\ qres' = Returned(Fuse(qfinal', qtopk))
                    ELSE /\ qfinal' = <<>>
                         /\ qres' = Failed("IndexError")
       \/ /\ qtopk <= 0
          /\ qsem' = <<>>
          /\ qfinal' = <<>>
          /\ qres' = Failed("AssertionError")
          /\ UNCHANGED qseen
       \/ /\ qtopk = 0
          /\ qsem' = <<>>
          /\ UNCHANGED qseen
          /\ qfinal' = perform_faiss_search(<<>>, metadata, qinitial, qtopk)
          /\ qres' = Returned(Fuse(qfinal', qtopk))
    /\ qpc' = "done"
    /\ UNCHANGED <<qquery, qtopk, qinitial>>
    /\ UNCHANGED <<ingestVars, chunkVars>>

\* The response is sent; the next query can start.
QueryReturn ==
    /\ qpc = "done"
    /\ qpc' = "idle"
    /\ qquery' = <<>>
    /\ qtopk' = 0
    /\ qinitial' = <<>>
    /\ qsem' = <<>>
    /\ qfinal' = <<>>
    /\ qres' = NoResult
    /\ qseen' = NoSeen
    /\ UNCHANGED <<ingestVars, chunkVars>>

(***************************************************************************)
(* The specifications.                                                     *)
(***************************************************************************)
InitIngest(corpus) ==
    /\ issues = corpus.issues
    /\ pages = corpus.pages
    /\ tableExists = FALSE
    /\ docsRows = <<>>
    /\ pending = [r \in Runs |-> <<>>]
    /\ dbWriter = 0
    /\ vectors = <<>>
    /\ metadata = <<>>
    /\ faiss_index = <<>>
    /\ pc = [r \in Runs |-> "idle"]
    /\ phase = [r \in Runs |-> "jira"]
    /\ di = [r \in Runs |-> 1]
    /\ ci = [r \in Runs |-> 1]
    /\ chunks = [r \in Runs |-> <<>>]
    /\ vec = [r \in Runs |-> <<0, 0>>]
    /\ err = [r \in Runs |-> ""]
    /\ lastRun = 0
    /\ solo = TRUE
    /\ serial = TRUE
    /\ prev = [table |-> FALSE, rows |-> <<>>, faiss |-> <<>>, meta |-> <<>>]
    /\ doneAtStart = [done |-> 0, aborted |-> 0]

InitQuery ==
    /\ qpc = "idle"
    /\ qquery = <<>>
    /\ qtopk = 0
    /\ qinitial = <<>>
    /\ qsem = <<>>
    /\ qfinal = <<>>
    /\ qres = NoResult
    /\ qseen = NoSeen

\* The service after start-up: nothing ingested, no query under way.
Init ==
    /\ \E corpus \in Corpora : InitIngest(corpus)
    /\ InitQuery
    /\ ctext = <<>>
    /\ cmax = DefaultMaxWords
    /\ cover = DefaultOverlap
    /\ cgen = NewGenerator

Next ==
    \/ \E r \in Runs : Ingest(r)
    \/ \E q \in Queries, k \in TopKs : QueryLexical(q, k)
    \/ QueryFaiss
    \/ QueryReturn

Spec == Init /\ [][Next]_vars

\* The text "a b c d e f".
SixWords == <<"a", " ", "b", " ", "c", " ", "d", " ", "e", " ", "f">>

\* chunk_text called on its own with a text and parameters from bounded sets.
InitChunk ==
    /\ InitIngest([issues |-> <<>>, pages |-> <<>>])
    /\ InitQuery
    /\ ctext \in SeqsUpTo(Chars, MaxTextLen) \cup {SixWords}
    /\ cmax \in 1..MaxMaxWords
    /\ cover \in 0..MaxMaxWords
    /\ cgen = NewGenerator

NextChunk == ChunkNext /\ UNCHANGED <<ingestVars, queryVars>>

SpecChunk == InitChunk /\ [][NextChunk]_vars

(***************************************************************************)
(* The claims.                                                             *)
(***************************************************************************)

\* The three structures hold the same chunks in the same order.
SameChunks(rows, faiss, meta) ==
    /\ Len(rows) = Len(meta)
    /\ Len(faiss) = Len(meta)
    /\ \A i \in 1..Len(meta) :
          /\ rows[i].content = meta[i].text
          /\ rows[i].source = meta[i].source
          /\ rows[i].doc_id = meta[i].id
          /\ faiss[i] = encode(meta[i].text)

\* The second of two runs made one after the other, the first completed,
\* has completed too.
TwoRunsInSequence ==
    /\ lastRun = 2
    /\ solo
    /\ doneAtStart = [done |-> 1, aborted |-> 0]
    /\ pc[lastRun] = "done"

\* C1 (re-ingestion idempotence): when ingest_data has run twice in sequence,
\* both runs completing, the docs table, faiss_index and metadata each hold
\* exactly what they held after the first run.
C1_ReingestIdempotent ==
    TwoRunsInSequence =>
        /\ docsRows = prev.rows
        /\ faiss_index = prev.faiss
        /\ metadata = prev.meta

\* C2 (positional correspondence): after any sequence of one or more completed
\* runs, faiss_index and metadata have the same length and the vector at
\* position i is the embedding of the chunk metadata[i] describes.
C2_PositionalCorrespondence ==
    (/\ lastRun # 0
     /\ serial
     /\ \A r \in Runs : pc[r] \in {"idle", "done"}) =>
        /\ Len(faiss_index) = Len(metadata)
        /\ \A i \in 1..Len(faiss_index) : faiss_index[i] = encode(metadata[i].text)

\* C3 (no torn reads): a query that made its two reads while an ingestion run
\* was under way read a docs table, a vector index and a metadata list that
\* hold the same chunks (one generation).
C3_NoTornRead ==
    (qpc = "done" /\ qseen.reads = 2 /\ qseen.during) =>
        /\ qseen.table
        /\ SameChunks(qseen.rows, qseen.faiss, qseen.meta)

\* The position of the hit that came from place f in the result, 0 if cut.
PlaceInResult(f) ==
    IF \E p \in 1..Len(qres.from) : qres.from[p] = f
    THEN CHOOSE p \in 1..Len(qres.from) : qres.from[p] = f
    ELSE 0

\* C4 (score direction): of two semantic hits (hits of stored vectors the
\* search found), the one at the smaller distance
\* has the strictly higher score, comes first in the result of hybrid_search,
\* and is not cut from the result while the other stays.
C4_ScoreDirection ==
    (qpc = "done" /\ qres.status = "ok") =>
        \A a, b \in {j \in 1..Len(qsem) : qsem[j].idx >= 0} :
            qsem[a].dist < qsem[b].dist =>
                /\ qfinal[a].hit.score > qfinal[b].hit.score
                /\ PlaceInResult(<<"semantic", b>>) # 0 =>
                      /\ PlaceInResult(<<"semantic", a>>) # 0
                      /\ PlaceInResult(<<"semantic", a>>) < PlaceInResult(<<"semantic", b>>)

\* The hits of the neighbours the search found (ids of stored vectors), in
\* search order.
NeighbourHits ==
    LET RECURSIVE Pick(_)
        Pick(j) == IF j > Len(qsem) THEN <<>>
                   ELSE (IF qsem[j].idx >= 0 THEN <<qfinal[j]>> ELSE <<>>) \o Pick(j + 1)
    IN  Pick(1)

\* A query made its two reads with no run under way, of a populated index
\* whose three structures hold the same chunks.
ReadBuiltIndex ==
    /\ qseen.reads = 2
    /\ ~qseen.during
    /\ qseen.table
    /\ qseen.faiss # <<>>
    /\ SameChunks(qseen.rows, qseen.faiss, qseen.meta)

\* C5 (fusion result): for top_k > 0, hybrid_search returns the first top_k
\* hits of the stable descending sort of the semantic hits followed by the
\* first top_k lexical hits. Stated for the queries of a populated, consistent
\* index, one of the index states the claim covers.
C5_FusionResult ==
    (qpc = "done" /\ qtopk > 0 /\ ReadBuiltIndex) =>
        /\ qres.status = "ok"
        /\ qres.hits = Hits(PySlice(SortDesc(NeighbourHits \o PySlice(qinitial, 0, qtopk)),
                                    0, qtopk))

\* C6 (non-positive top_k): for top_k <= 0, hybrid_search fails with
\* InvalidArgument and returns no hit list.
C6_NonPositiveTopK ==
    (qpc = "done" /\ qtopk <= 0) =>
        /\ qres.status = "error"
        /\ qres.error = "InvalidArgument"
        /\ qres.hits = <<>>

\* A query read an index that is empty or was never built, no run under way.
ReadEmptyIndex ==
    /\ qseen.reads >= 1
    /\ ~qseen.during
    /\ (~qseen.table \/ qseen.rows = <<>>)
    /\ qseen.faiss = <<>>
    /\ qseen.meta = <<>>

\* C7 (empty index): for top_k > 0, hybrid_search against an empty or
\* never-built index returns the empty hit list and raises no error.
C7_EmptyIndex ==
    (qpc = "done" /\ qtopk > 0 /\ ReadEmptyIndex) =>
        /\ qres.status = "ok"
        /\ qres.hits = <<>>

\* The documents after the one run r is at.
RemainingDocuments(r) ==
    IF phase[r] = "jira" THEN (Len(issues) - di[r]) + Len(pages) ELSE Len(pages) - di[r]

\* C8 (partial-failure policy): a failure to fetch or to embed one document
\* does not end the run while documents remain: the run goes on to them.
C8_PartialFailure ==
    \A r \in Runs :
        (err[r] \in {"FetchError", "EmbedError"} /\ RemainingDocuments(r) > 0) =>
            pc[r] # "aborted"

\* C9 (an aborted run leaves the previous generation): when a run that started
\* on a built index (a completed run before it, no other run beside it) has
\* aborted, the docs table, faiss_index and metadata are as they were when it
\* started.
C9_AbortLeavesPrevious ==
    (/\ lastRun # 0
     /\ solo
     /\ doneAtStart.done >= 1
     /\ pc[lastRun] = "aborted") =>
        IndexState = prev

\* C10 (invalid chunking configuration): with overlap >= max_words, iterating
\* chunk_text ends in an error (of whatever name); it does not end as a
\* (possibly empty) sequence of chunks. Stated for the texts that have words.
C10_InvalidConfiguration ==
    (cover >= cmax /\ Split(ctext) # <<>> /\ cgen.status # "new") =>
        cgen.status = "raised"

\* The words of the text chunk_text was called with, their number, the step.
Words == Split(ctext)
W == Len(Words)
Step == cmax - cover

\* s is words joined by single spaces: no space at either end, no two
\* spaces in a row, no other whitespace.
SingleSpaced(s) ==
    /\ s # <<>> => (s[1] # " " /\ s[Len(s)] # " ")
    /\ \A j \in 1..Len(s) : s[j] # "\n"
    /\ \A j \in 1..(Len(s) - 1) : ~(s[j] = " " /\ s[j + 1] = " ")

\* The generator has ended, with valid parameters 0 <= overlap < max_words.
ChunkingEnded == cover < cmax /\ cgen.status \in {"raised", "exhausted"}

\* C11 as stated (short text): for 0 <= overlap < max_words, a text with
\* 0 < W < max_words words yields exactly one chunk, its words joined by
\* single spaces; a text without words yields no chunk and no error.
C11_ShortTextOneChunk ==
    ChunkingEnded =>
        /\ cgen.status = "exhausted"
        /\ W = 0 => cgen.out = <<>>
        /\ (0 < W /\ W < cmax) =>
              /\ Len(cgen.out) = 1
              /\ Split(cgen.out[1]) = Words
              /\ SingleSpaced(cgen.out[1])

\* C11 amended: for 0 <= overlap < max_words, a text with 0 < W < max_words
\* words yields as first chunk its words joined by single spaces, and that is
\* the only chunk exactly when W <= max_words - overlap; a text without words
\* yields no chunk and no error.
C11_ShortTextFirstChunk ==
    ChunkingEnded =>
        /\ cgen.status = "exhausted"
        /\ W = 0 => cgen.out = <<>>
        /\ (0 < W /\ W < cmax) =>
              /\ Len(cgen.out) >= 1
              /\ Split(cgen.out[1]) = Words
              /\ SingleSpaced(cgen.out[1])
              /\ (Len(cgen.out) = 1) <=> (W <= Step)

\* A text of two words, separated by more than one space, has been chunked
\* with max_words above 2 and came out as one chunk.
C11_Witness ==
    /\ ChunkingEnded
    /\ W = 2
    /\ W < cmax
    /\ Len(ctext) > Len(Join(Words, " "))
    /\ Len(cgen.out) = 1

\* The first n words of each of the chunks j, j + 1, ... in order.
RECURSIVE FirstWordsFrom(_, _)
FirstWordsFrom(j, n) ==
    IF j > Len(cgen.out) THEN <<>>
    ELSE PySlice(Split(cgen.out[j]), 0, n) \o FirstWordsFrom(j + 1, n)

\* C12 (chunk windows): for 0 <= overlap < max_words, the i-th chunk (from 0)
\* is the words [i*step, min(i*step + max_words, W)) of the text joined by
\* single spaces, with step = max_words - overlap, so it has between 1 and
\* max_words words; the chunks are those of the i with i*step < W, in
\* increasing i; and the first step words of every chunk, put together in
\* order, are the words of the text.
C12_ChunkWindows ==
    cover < cmax =>
        /\ cgen.status # "raised"
        /\ \A j \in 1..Len(cgen.out) :
              /\ (j - 1) * Step < W
              /\ Split(cgen.out[j]) =
                    SubSeq(Words, (j - 1) * Step + 1, Min((j - 1) * Step + cmax, W))
              /\ SingleSpaced(cgen.out[j])
              /\ Len(Split(cgen.out[j])) >= 1
              /\ Len(Split(cgen.out[j])) <= cmax
        /\ cgen.status = "exhausted" =>
              /\ Len(cgen.out) * Step >= W
              /\ FirstWordsFrom(1, Step) = Words

\* "a b c d e f" has been chunked with max_words 4 and overlap 2 into
\* "a b c d", "c d e f", "e f".
C12_Witness ==
    /\ ctext = SixWords
    /\ cmax = 4
    /\ cover = 2
    /\ cgen.status = "exhausted"
    /\ cgen.out = << <<"a", " ", "b", " ", "c", " ", "d">>,
                     <<"c", " ", "d", " ", "e", " ", "f">>,
                     <<"e", " ", "f">> >>

\* ceil(a / b) for a >= 0, b > 0.
CeilDiv(a, b) == (a + b - 1) \div b

\* C13 as stated (chunk count): for 0 <= overlap < max_words the number of
\* chunks is ceil(max(W - overlap, 0) / (max_words - overlap)).
C13_CountSpecFormula ==
    (ChunkingEnded /\ cgen.status = "exhausted") =>
        Len(cgen.out) = CeilDiv(Max(W - cover, 0), Step)

\* C13 amended: for 0 <= overlap < max_words the number of chunks is
\* ceil(W / (max_words - overlap)).
C13_ChunkCount ==
    ChunkingEnded =>
        /\ cgen.status = "exhausted"
        /\ Len(cgen.out) = CeilDiv(W, Step)

\* "a b c d e f" has been chunked with max_words 4 and overlap 2 into 3
\* chunks, where ceil((6 - 2) / 2) is 2.
C13_Witness ==
    /\ ctext = SixWords
    /\ cmax = 4
    /\ cover = 2
    /\ cgen.status = "exhausted"
    /\ Len(cgen.out) = 3
    /\ CeilDiv(Max(W - cover, 0), Step) = 2

\* The runs that have begun to modify the index and have not ended.
Writing == {r \in Runs : pc[r] \notin {"idle", "drop", "done", "aborted"}}

\* C14 (single writer): when two runs whose background tasks overlap have
\* both completed, the per-chunk insertions stayed in one common order: the
\* lists vectors and metadata have the same length and the vector at every
\* position is the embedding of the chunk metadata holds there.
C14_SingleWriter ==
    (~serial /\ \A r \in Runs : pc[r] = "done") =>
        /\ Len(vectors) = Len(metadata)
        /\ \A i \in 1..Len(vectors) : vectors[i] = encode(metadata[i].text)

\* The positions of the search result that perform_faiss_search made a hit of.
SemanticPlaces == {j \in 1..Len(qsem) :
                      \E p \in 1..Len(qfinal) : qfinal[p].from = <<"semantic", j>>}

\* C15 (no placeholder hit): in a search of a populated, consistent index,
\* every semantic hit of perform_faiss_search is the hit of a stored vector
\* the search returned: the placeholder id -1 of a missing neighbour is made no
\* hit, and with n stored vectors there are min(n, top_k) semantic hits.
C15_NoPlaceholderHit ==
    (qpc = "done" /\ qtopk > 0 /\ qres.status = "ok" /\ ReadBuiltIndex) =>
        /\ \A j \in SemanticPlaces : qsem[j].idx >= 0
        /\ Cardinality(SemanticPlaces) = Min(Len(qseen.faiss), qtopk)

====
